---- MODULE Spec2Model ----
(***************************************************************************)
(* Model of the multi-agent compliance analysis core of TechJam2025:       *)
(*   - MultiAgentOrchestrator.analyze_feature and ValidationAgent.analyze  *)
(*     (src/BE/core/agents.py),                                            *)
(*   - ComplianceCache (src/BE/core/cache.py), also with two instances on  *)
(*     one file,                                                           *)
(*   - flag_feature_for_compliance (src/rag_simple.py) and the Legal       *)
(*     Analyst's use of the text-completion collaborator,                  *)
(*   - the two document stores of src/vector_store.py,                     *)
(*   - ComplianceService.analyze_code of the Extension Host.               *)
(*                                                                         *)
(* Confidences are Python floats in [0,1]; they are modelled in            *)
(* hundredths (90 stands for 0.9).  The mean of line 526 is kept as the    *)
(* exact pair <<sum, count>>, so no rounding is introduced by the model.   *)
(* (CPython before 3.12 sums floats left to right, so the last bit of      *)
(* agent_consensus can depend on the list order there; the model is of     *)
(* the exact mean.)                                                        *)
(*                                                                         *)
(* A dictionary key that is absent is modelled by the value Missing (for   *)
(* strings), by -1 (for counts) and by <<0, 0>> (for agent_consensus).     *)
(***************************************************************************)
EXTENDS Integers, Sequences, FiniteSets, TLC

VARIABLES
    pc,             \* position of analyze_feature: idle, gathering, returned, raised
    feature,        \* the feature dictionary handed to analyze_feature
    task,           \* per agent index: state of its task inside asyncio.gather
    result,         \* per agent index: the finding its task returned
    completed,      \* agent indexes in the order their tasks finished
    valid_results,  \* the list handed to the validator (agents.py:574)
    verdict,        \* the dictionary analyze_feature returned
    cache,          \* ComplianceCache.cache (in-memory dict)
    cache_file,     \* contents of the pickle file behind the cache
    now,            \* datetime.now(), in days
    last_put,       \* history: per (subject, reference) the last cache_result
    got,            \* history: the last get_cached_result call and its return value
    expanded_feature,   \* the orchestrator's copy of the feature (agents.py:562)
    holders,        \* two ComplianceCache instances on one file: state and dict
    shared_file,    \* the pickle file the two instances share
    acked,          \* history: per key the value of the last cache_result that returned
    writes,         \* number of cache_result calls started on the shared file
    compliance_flags,   \* the list flag_feature_for_compliance returned
    collaborator_log,   \* history: per reference text of the last run, what was done
    documents,      \* SimpleFallbackStore.documents
    collection,     \* the chroma collection of LegalDocumentVectorStore
    search_result,  \* the last search_relevant_statutes call and its outcome
    host_call,      \* the last ComplianceService.analyze_code call and its outcome
    intent_call,    \* the last IntentClassificationAgent.analyze call and its finding
    legal_call,     \* the last LegalAnalysisAgent.analyze call and its finding
    batch_call      \* the last analyze_feature_list call and its report

orch_vars == <<pc, feature, task, result, completed, valid_results, verdict, expanded_feature>>
cache_vars == <<cache, cache_file, now, last_put, got>>
shared_vars == <<holders, shared_file, acked, writes>>
flag_vars == <<compliance_flags, collaborator_log>>
retrieval_vars == <<documents, collection, search_result>>
host_vars == <<host_call>>
intent_vars == <<intent_call>>
legal_vars == <<legal_call>>
batch_vars == <<batch_call>>
vars == <<pc, feature, task, result, completed, valid_results, verdict, expanded_feature,
          cache, cache_file, now, last_put, got,
          holders, shared_file, acked, writes,
          compliance_flags, collaborator_log,
          documents, collection, search_result, host_call,
          intent_call, legal_call, batch_call>>

(***************************************************************************)
(* Bounds of the model.                                                    *)
(***************************************************************************)
MaxRegs == 2
MaxTicks == 3
TickDays == 15

Missing == "missing"
None == "None"

(***************************************************************************)
(* The registered agents, agents.py:549-553, by list index.                *)
(***************************************************************************)
agents == <<"Intent Classifier", "Legal Analyst", "Technical Analyst">>
AgentIdx == DOMAIN agents

RegNames == {"COPPA", "GDPR"}

RECURSIVE SeqsUpTo(_, _)
SeqsUpTo(S, n) ==
    IF n = 0 THEN {<<>>}
    ELSE LET shorter == SeqsUpTo(S, n - 1)
         IN  shorter \cup {Append(s, x) : s \in {t \in shorter : Len(t) = n - 1}, x \in S}

(***************************************************************************)
(* Findings.  Every finding is a record with the same fields; a key the    *)
(* agent does not emit is Missing / <<>> / -1.                             *)
(***************************************************************************)
Finding(agent, error, confidence, intent, regs, risk, complexity, security) ==
    [agent |-> agent, error |-> error, confidence |-> confidence,
     reasoning |-> IF error THEN "Agent failed" ELSE "analysis",
     intent |-> intent, applicable_regulations |-> regs, risk_level |-> risk,
     implementation_complexity |-> complexity, security_considerations |-> security]

\* IntentClassificationAgent.analyze: intent is the arg-max label, confidence
\* the maximum of three scores that sum to 1 (so it is at least 1/3).
IntentConfidences == {40, 60, 100}
IntentFindings ==
    {Finding(agents[1], FALSE, c, i, <<>>, Missing, Missing, -1) :
        c \in IntentConfidences, i \in {"compliance", "business", "ambiguous"}}

\* LegalAnalysisAgent.analyze: confidence 0.0 and risk 'low' unless the LLM
\* response was parsed (0.9 for JSON, 0.7 for free text, any risk level).
LegalShapes == {<<0, "low">>, <<70, "low">>, <<70, "medium">>, <<70, "high">>,
                <<90, "low">>, <<90, "medium">>, <<90, "high">>}
LegalFindings ==
    {Finding(agents[2], FALSE, s[1], Missing, regs, s[2], Missing, -1) :
        s \in LegalShapes, regs \in SeqsUpTo(RegNames, MaxRegs)}

\* TechnicalAnalysisAgent.analyze: confidence is 0.3 or a mean of factors.
TechnicalFindings ==
    {Finding(agents[3], FALSE, c, Missing, <<>>, Missing, x, n) :
        c \in {30, 80}, x \in {"low", "medium"}, n \in {0, 2}}

FindingsOf(i) ==
    CASE i = 1 -> IntentFindings
      [] i = 2 -> LegalFindings
      [] i = 3 -> TechnicalFindings

NoFinding == Finding(None, FALSE, 0, Missing, <<>>, Missing, Missing, -1)

(***************************************************************************)
(* ValidationAgent.analyze, agents.py:466-544.                             *)
(***************************************************************************)
Line(msg, arg) == [msg |-> msg, arg |-> arg]

\* agents.py:468-480
consolidated_init ==
    [needs_compliance_logic |-> FALSE, confidence |-> 0, reasoning |-> <<>>,
     applicable_regulations |-> <<>>, action_required |-> "NO_ACTION",
     human_review_needed |-> FALSE, risk_level |-> "low",
     implementation_notes |-> <<>>, agent_consensus |-> <<0, 1>>,
     error |-> FALSE, total_agents |-> -1, successful_agents |-> -1]

\* next((r for r in agent_results if r["agent"] == name), None)
FindAgentByPosition(agent_results, name) ==
    LET i == CHOOSE k \in AgentIdx : agents[k] = name
    IN  IF i \in DOMAIN agent_results THEN agent_results[i] ELSE NoFinding

FindAgent(agent_results, name) ==
    LET hits == {i \in DOMAIN agent_results : agent_results[i].agent = name}
    IN  IF hits = {} THEN NoFinding
        ELSE agent_results[CHOOSE i \in hits : \A j \in hits : i <= j]

\* intent_result["intent"] on a dictionary without that key raises KeyError
\* (agents.py:489); the placeholder of a failed agent has no "intent".
ValidatorRaises(agent_results) ==
    LET intent_result == FindAgent(agent_results, agents[1])
    IN  intent_result # NoFinding /\ intent_result.intent = Missing

AnalyzeIntentNoReview(c, intent_result) ==
    IF intent_result = NoFinding THEN c
    ELSE CASE intent_result.intent = "business" ->
                [c EXCEPT !.reasoning = Append(@, Line("business-driven", "")),
                          !.confidence = intent_result.confidence]
           [] intent_result.intent = "compliance" ->
                [c EXCEPT !.needs_compliance_logic = TRUE,
                          !.reasoning = Append(@, Line("compliance-driven", "")),
                          !.confidence = intent_result.confidence]
           [] intent_result.intent = "ambiguous" ->
                [c EXCEPT !.reasoning = Append(@, Line("intent ambiguous", "")),
                          !.confidence = intent_result.confidence]
           [] OTHER -> c

\* agents.py:487-499
AnalyzeIntent(c, intent_result) ==
    IF intent_result = NoFinding THEN c
    ELSE CASE intent_result.intent = "business" ->
                [c EXCEPT !.reasoning = Append(@, Line("business-driven", "")),
                          !.confidence = intent_result.confidence]
           [] intent_result.intent = "compliance" ->
                [c EXCEPT !.needs_compliance_logic = TRUE,
                          !.reasoning = Append(@, Line("compliance-driven", "")),
                          !.confidence = intent_result.confidence]
           [] intent_result.intent = "ambiguous" ->
                [c EXCEPT !.human_review_needed = TRUE,
                          !.reasoning = Append(@, Line("intent ambiguous", "")),
                          !.confidence = intent_result.confidence]
           [] OTHER -> c

Max(a, b) == IF a >= b THEN a ELSE b

\* agents.py:501-513
AnalyzeLegal(c, legal_result) ==
    IF legal_result # NoFinding /\ legal_result.applicable_regulations # <<>>
    THEN [c EXCEPT !.needs_compliance_logic = TRUE,
                   !.applicable_regulations = legal_result.applicable_regulations,
                   !.reasoning = Append(@, Line("applicable regulations found",
                                    ToString(Len(legal_result.applicable_regulations)))),
                   !.confidence = Max(@, legal_result.confidence),
                   !.risk_level = IF legal_result.risk_level = Missing THEN "low"
                                  ELSE legal_result.risk_level]
    ELSE c

\* agents.py:515-522
AnalyzeTechnical(c, technical_result) ==
    IF technical_result = NoFinding THEN c
    ELSE LET tech_complexity ==
                 IF technical_result.implementation_complexity = Missing THEN "low"
                 ELSE technical_result.implementation_complexity
             n1 == Append(c.implementation_notes, Line("Technical complexity", tech_complexity))
             n2 == IF technical_result.security_considerations > 0
                   THEN Append(n1, Line("Security considerations",
                                        ToString(technical_result.security_considerations)))
                   ELSE n1
         IN  [c EXCEPT !.implementation_notes = n2]

RECURSIVE SumSeq(_)
SumSeq(s) == IF s = <<>> THEN 0 ELSE Head(s) + SumSeq(Tail(s))

\* agents.py:525: [r.get("confidence", 0.0) for r in agent_results if r.get("confidence")]
Confidences(agent_results) ==
    LET keep == SelectSeq(agent_results, LAMBDA r : r.confidence # 0)
    IN  [i \in DOMAIN keep |-> keep[i].confidence]

\* agents.py:526: sum(confidences) / len(confidences) if confidences else 0.0
AgentConsensus(agent_results) ==
    LET confidences == Confidences(agent_results)
    IN  IF confidences # <<>> THEN <<SumSeq(confidences), Len(confidences)>> ELSE <<0, 1>>

\* q < 0.5 for the mean q = <<sum, count>> of confidences in hundredths
LessThanHalf(q) == 2 * q[1] < 100 * q[2]

\* agents.py:528-537
ActionRequired(c) ==
    IF c.human_review_needed THEN "HUMAN_REVIEW"
    ELSE IF c.needs_compliance_logic
         THEN IF c.risk_level = "high" THEN "URGENT_COMPLIANCE" ELSE "IMPLEMENT_COMPLIANCE"
         ELSE "NO_ACTION"

\* agents.py:539-542
AdjustForConsensus(c) ==
    IF LessThanHalf(c.agent_consensus)
    THEN [c EXCEPT !.human_review_needed = TRUE,
                   !.reasoning = Append(@, Line("Low agent consensus", ""))]
    ELSE c

\* agents.py:466-544, for a list on which it does not raise
ValidationAgent_analyze(agent_results) ==
    LET c1 == AnalyzeIntent(consolidated_init, FindAgent(agent_results, agents[1]))
        c2 == AnalyzeLegal(c1, FindAgent(agent_results, agents[2]))
        c3 == AnalyzeTechnical(c2, FindAgent(agent_results, agents[3]))
        c4 == [c3 EXCEPT !.agent_consensus = AgentConsensus(agent_results)]
        c5 == [c4 EXCEPT !.action_required = ActionRequired(c4)]
    IN  AdjustForConsensus(c5)

(***************************************************************************)
(* MultiAgentOrchestrator.analyze_feature, agents.py:557-613.              *)
(***************************************************************************)
\* The feature dictionary: whether it has a 'description' key, whether the
\* value under it is a string, and the value under 'expanded_description'
\* (Missing, or a value the caller put there).
Features ==
    {[has_description |-> TRUE, description_is_str |-> TRUE, expanded_description |-> Missing],
     [has_description |-> FALSE, description_is_str |-> FALSE, expanded_description |-> Missing],
     [has_description |-> TRUE, description_is_str |-> FALSE, expanded_description |-> Missing],
     [has_description |-> TRUE, description_is_str |-> TRUE, expanded_description |-> "caller's"]}

NoFeature == [has_description |-> FALSE, description_is_str |-> TRUE,
              expanded_description |-> Missing]

\* expand_description applies re.sub to its argument (jargon_resolver.py:68),
\* which raises TypeError when the argument is not a string.
expand_description_raises(text_is_str) == ~text_is_str

\* agents.py:579-584
Placeholder(i) == Finding(agents[i], TRUE, 0, Missing, <<>>, Missing, Missing, -1)

ValidResultsSkipFailed(t, r) ==
    LET all == [i \in AgentIdx |-> IF t[i] = "failed" THEN Placeholder(i) ELSE r[i]]
    IN  SelectSeq(all, LAMBDA f : ~f.error)

\* agents.py:574-586: one entry per position of gather's result list
ValidResults(t, r) ==
    [i \in AgentIdx |-> IF t[i] = "failed" THEN Placeholder(i) ELSE r[i]]

\* agents.py:602-613; the dictionary has no agent_consensus and no agent counts
FallbackVerdict ==
    [needs_compliance_logic |-> FALSE, confidence |-> 0,
     reasoning |-> <<Line("Analysis failed", "")>>,
     applicable_regulations |-> <<>>, action_required |-> "HUMAN_REVIEW",
     human_review_needed |-> TRUE, risk_level |-> "unknown",
     implementation_notes |-> <<>>, agent_consensus |-> <<0, 0>>,
     error |-> TRUE, total_agents |-> -1, successful_agents |-> -1]

NoVerdict ==
    [needs_compliance_logic |-> FALSE, confidence |-> 0, reasoning |-> <<>>,
     applicable_regulations |-> <<>>, action_required |-> None,
     human_review_needed |-> FALSE, risk_level |-> None,
     implementation_notes |-> <<>>, agent_consensus |-> <<0, 0>>,
     error |-> FALSE, total_agents |-> -1, successful_agents |-> -1]

\* agents.py:588-613: what analyze_feature returns once gather has returned
\* agent_results (t: which tasks raised) and valid_results has been built
FinalResult(t, vr) ==
    IF ValidatorRaises(vr) THEN FallbackVerdict
    ELSE [ValidationAgent_analyze(vr) EXCEPT
            !.total_agents = Len(agents),
            !.successful_agents = Cardinality({i \in AgentIdx : t[i] # "failed"})]

copy_and_expand_aliased(f) ==
    LET own == IF f.has_description /\ ~expand_description_raises(f.description_is_str)
               THEN [f EXCEPT !.expanded_description = "expanded"]
               ELSE f
    IN  [caller |-> own, own |-> own]

\* agents.py:562-566: expanded_feature = feature.copy(), then the expanded
\* description is stored in the copy when the feature has a description
copy_and_expand(f) ==
    LET own == IF f.has_description /\ ~expand_description_raises(f.description_is_str)
               THEN [f EXCEPT !.expanded_description = "expanded"]
               ELSE f
    IN  [caller |-> f, own |-> own]

\* agents.py:557-570: the call up to the creation of the agent tasks.  The
\* description is expanded before the try block is entered.
Call(f) ==
    /\ pc = "idle"
    /\ feature' = copy_and_expand(f).caller
    /\ expanded_feature' = copy_and_expand(f).own
    /\ IF f.has_description /\ expand_description_raises(f.description_is_str)
       THEN /\ pc' = "raised"
            /\ UNCHANGED task
       ELSE /\ pc' = "gathering"
            /\ task' = [i \in AgentIdx |-> "pending"]
    /\ UNCHANGED <<result, completed, valid_results, verdict>>
    /\ UNCHANGED <<cache_vars, shared_vars, flag_vars, retrieval_vars, host_vars, intent_vars, legal_vars, batch_vars>>

\* agent.analyze(expanded_feature) returns its finding
AgentReturn(i, r) ==
    /\ pc = "gathering"
    /\ task[i] = "pending"
    /\ task' = [task EXCEPT ![i] = "done"]
    /\ result' = [result EXCEPT ![i] = r]
    /\ completed' = Append(completed, i)
    /\ UNCHANGED <<pc, feature, expanded_feature, valid_results, verdict>>
    /\ UNCHANGED <<cache_vars, shared_vars, flag_vars, retrieval_vars, host_vars, intent_vars, legal_vars, batch_vars>>

\* agent.analyze(expanded_feature) raises an Exception
AgentRaise(i) ==
    /\ pc = "gathering"
    /\ task[i] = "pending"
    /\ task' = [task EXCEPT ![i] = "failed"]
    /\ completed' = Append(completed, i)
    /\ UNCHANGED <<pc, feature, expanded_feature, result, valid_results, verdict>>
    /\ UNCHANGED <<cache_vars, shared_vars, flag_vars, retrieval_vars, host_vars, intent_vars, legal_vars, batch_vars>>

\* agents.py:571-613: asyncio.gather(*tasks, return_exceptions=True) returns
\* when every task has finished; the rest of the method runs without
\* suspension.
Consolidate ==
    /\ pc = "gathering"
    /\ \A i \in AgentIdx : task[i] \in {"done", "failed"}
    /\ valid_results' = ValidResults(task, result)
    /\ verdict' = FinalResult(task, valid_results')
    /\ pc' = "returned"
    /\ UNCHANGED <<feature, expanded_feature, task, result, completed>>
    /\ UNCHANGED <<cache_vars, shared_vars, flag_vars, retrieval_vars, host_vars, intent_vars, legal_vars, batch_vars>>

OrchInit ==
    /\ pc = "idle"
    /\ feature = NoFeature
    /\ task = [i \in AgentIdx |-> "idle"]
    /\ result = [i \in AgentIdx |-> NoFinding]
    /\ completed = <<>>
    /\ valid_results = <<>>
    /\ verdict = NoVerdict
    /\ expanded_feature = NoFeature

(***************************************************************************)
(* ComplianceCache, cache.py:6-72.                                         *)
(***************************************************************************)
expiry_days == 30

Texts == {"a", "b"}
Values == {"v1", "v2"}

\* cache.py:25-27: hashlib.md5(text).hexdigest(), first eight hex digits
_generate_hash(text) ==
    CASE text = "a" -> "0cc175b9"
      [] text = "b" -> "92eb5ffe"

cache_key_feature_only(feature_description, statute_content) ==
    <<_generate_hash(feature_description), _generate_hash(feature_description)>>

\* cache.py:31-33 and 48-50: f"{feature_hash}_{statute_hash}"
cache_key(feature_description, statute_content) ==
    <<_generate_hash(feature_description), _generate_hash(statute_content)>>

Digests == {_generate_hash(t) : t \in Texts}
CacheKeys == Digests \X Digests

NoEntry == [result |-> None, timestamp |-> -1]
EmptyStore == [k \in CacheKeys |-> NoEntry]

NoPut == [value |-> None, at |-> -1]
NoGet == [subject |-> None, reference |-> None, value |-> None, at |-> -1]

\* cache.py:38: datetime.now() - cached_item['timestamp'] < timedelta(days=self.expiry_days)
Fresh(item, t) == t - item.timestamp < expiry_days

\* cache.py:29-44: the value get_cached_result returns
get_cached_value(store, key, t) ==
    IF store[key] # NoEntry /\ Fresh(store[key], t) THEN store[key].result ELSE None

get_cached_result_keeps_expired(s, r) ==
    LET key == cache_key(s, r)
    IN  /\ got' = [subject |-> s, reference |-> r,
                   value |-> get_cached_value(cache, key, now), at |-> now]
        /\ UNCHANGED <<cache, cache_file, now, last_put>>
        /\ UNCHANGED <<orch_vars, shared_vars, flag_vars, retrieval_vars, host_vars, intent_vars, legal_vars, batch_vars>>

\* cache.py:29-44
get_cached_result(s, r) ==
    LET key == cache_key(s, r)
    IN  /\ got' = [subject |-> s, reference |-> r,
                   value |-> get_cached_value(cache, key, now), at |-> now]
        /\ cache' = IF cache[key] # NoEntry /\ ~Fresh(cache[key], now)
                    THEN [cache EXCEPT ![key] = NoEntry]
                    ELSE cache
        /\ UNCHANGED <<cache_file, now, last_put>>
        /\ UNCHANGED <<orch_vars, shared_vars, flag_vars, retrieval_vars, host_vars, intent_vars, legal_vars, batch_vars>>

cache_result_without_save(s, r, v) ==
    LET key == cache_key(s, r)
    IN  /\ cache' = [cache EXCEPT ![key] = [result |-> v, timestamp |-> now]]
        /\ last_put' = [last_put EXCEPT ![<<s, r>>] = [value |-> v, at |-> now]]
        /\ got' = NoGet
        /\ UNCHANGED <<cache_file, now>>
        /\ UNCHANGED <<orch_vars, shared_vars, flag_vars, retrieval_vars, host_vars, intent_vars, legal_vars, batch_vars>>

\* cache.py:46-56, save_cache (cache.py:20-23) included
cache_result(s, r, v) ==
    LET key == cache_key(s, r)
    IN  /\ cache' = [cache EXCEPT ![key] = [result |-> v, timestamp |-> now]]
        /\ cache_file' = cache'
        /\ last_put' = [last_put EXCEPT ![<<s, r>>] = [value |-> v, at |-> now]]
        /\ got' = NoGet
        /\ UNCHANGED now
        /\ UNCHANGED <<orch_vars, shared_vars, flag_vars, retrieval_vars, host_vars, intent_vars, legal_vars, batch_vars>>

\* cache.py:58-72
clear_expired ==
    LET expired_keys == {k \in CacheKeys :
                            cache[k] # NoEntry /\ now - cache[k].timestamp > expiry_days}
    IN  /\ cache' = [k \in CacheKeys |-> IF k \in expired_keys THEN NoEntry ELSE cache[k]]
        /\ cache_file' = IF expired_keys # {} THEN cache' ELSE cache_file
        /\ got' = NoGet
        /\ UNCHANGED <<now, last_put>>
        /\ UNCHANGED <<orch_vars, shared_vars, flag_vars, retrieval_vars, host_vars, intent_vars, legal_vars, batch_vars>>

\* cache.py:7-18: a ComplianceCache is constructed on the same file
load_cache ==
    /\ cache' = cache_file
    /\ got' = NoGet
    /\ UNCHANGED <<cache_file, now, last_put>>
    /\ UNCHANGED <<orch_vars, shared_vars, flag_vars, retrieval_vars, host_vars, intent_vars, legal_vars, batch_vars>>

\* time passes
Tick ==
    /\ now < MaxTicks * TickDays
    /\ now' = now + TickDays
    /\ got' = NoGet
    /\ UNCHANGED <<cache, cache_file, last_put>>
    /\ UNCHANGED <<orch_vars, shared_vars, flag_vars, retrieval_vars, host_vars, intent_vars, legal_vars, batch_vars>>

CacheInitState ==
    /\ cache = EmptyStore
    /\ cache_file = EmptyStore
    /\ now = 0
    /\ last_put = [p \in Texts \X Texts |-> NoPut]
    /\ got = NoGet

(***************************************************************************)
(* Two ComplianceCache instances constructed on the same cache file,       *)
(* cache.py:7-23 and 46-56.  The instances run in different threads or     *)
(* processes, so a cache_result is divided where it opens the file.        *)
(***************************************************************************)
MaxWrites == 3

Holders == {"A", "B"}
NoKey == <<None, None>>
NoHolder == [state |-> "absent", cache |-> EmptyStore, key |-> NoKey, value |-> None]

\* cache.py:7-18: __init__ loads the file.  A file that does not exist gives
\* an empty dict; pickle.load of a file that another instance has just
\* opened for writing (zero bytes) raises EOFError, which is not caught.
ComplianceCache_init(h) ==
    /\ holders[h].state \in {"absent", "failed"}
    /\ holders' = [holders EXCEPT ![h] =
                      IF shared_file.truncated
                      THEN [NoHolder EXCEPT !.state = "failed"]
                      ELSE [NoHolder EXCEPT !.state = "ready", !.cache = shared_file.content]]
    /\ UNCHANGED <<shared_file, acked, writes>>
    /\ UNCHANGED <<orch_vars, cache_vars, flag_vars, retrieval_vars, host_vars, intent_vars, legal_vars, batch_vars>>

\* cache.py:46-56 and 20-21: the entry is stored in the instance's dict and
\* save_cache opens the file with mode 'wb', which truncates it
cache_result_open(h, s, r, v) ==
    LET key == cache_key(s, r)
    IN  /\ holders[h].state = "ready"
        /\ writes < MaxWrites
        /\ writes' = writes + 1
        /\ holders' = [holders EXCEPT ![h] =
                          [state |-> "saving",
                           cache |-> [holders[h].cache EXCEPT
                                         ![key] = [result |-> v, timestamp |-> now]],
                           key |-> key, value |-> v]]
        /\ shared_file' = [truncated |-> TRUE, content |-> EmptyStore]
        /\ UNCHANGED acked
        /\ UNCHANGED <<orch_vars, cache_vars, flag_vars, retrieval_vars, host_vars, intent_vars, legal_vars, batch_vars>>

\* cache.py:22-23: pickle.dump(self.cache, f) writes the instance's whole
\* dict from the start of the file, and cache_result returns
cache_result_dump(h) ==
    /\ holders[h].state = "saving"
    /\ shared_file' = [truncated |-> FALSE, content |-> holders[h].cache]
    /\ acked' = [acked EXCEPT ![holders[h].key] = holders[h].value]
    /\ holders' = [holders EXCEPT ![h] = [@ EXCEPT !.state = "ready", !.key = NoKey,
                                                   !.value = None]]
    /\ UNCHANGED writes
    /\ UNCHANGED <<orch_vars, cache_vars, flag_vars, retrieval_vars, host_vars, intent_vars, legal_vars, batch_vars>>

SharedInit ==
    /\ holders = [h \in Holders |-> NoHolder]
    /\ shared_file = [truncated |-> FALSE, content |-> EmptyStore]
    /\ acked = [k \in CacheKeys |-> None]
    /\ writes = 0

(***************************************************************************)
(* flag_feature_for_compliance with a ComplianceCache, rag_simple.py:      *)
(* 164-232, and the Legal Analyst's call of the text-completion            *)
(* collaborator, agents.py:43-120.                                         *)
(***************************************************************************)
Blank == " "

\* call_openrouter returns the completion's text, "" when the completion has
\* none (rag_simple.py:157-160), or raises RuntimeError (rag_simple.py:161-162)
Responses == {"", "YES"}
Raised == "raised"
Outcomes == Responses \cup {Raised}

StatuteLists == {<<"a">>, <<"a", "b">>, <<Blank, "b">>, <<"b", "b">>}
RetrievedLists == {<<"a">>, <<"a", "b">>}
FlaggedFeature == "a"

\* truth value of a Python string or None
Truthy(v) == v # None /\ v # ""

Flag(statute, compliance_flag, cached) ==
    [statute |-> statute, compliance_flag |-> compliance_flag, cached |-> cached]

\* what was done for one reference text: whether the cache was looked up,
\* whether it held a non-expired entry for the pair, whether the
\* collaborator was called
Event(caller, reference, looked_up, fresh_hit, called) ==
    [caller |-> caller, reference |-> reference, looked_up |-> looked_up,
     fresh_hit |-> fresh_hit, called |-> called]

HoldsFresh(store, key, t) == store[key] # NoEntry /\ Fresh(store[key], t)

\* cache.py:39-42: the store after get_cached_result(key)
AfterLookup(store, key, t) ==
    IF store[key] # NoEntry /\ ~Fresh(store[key], t)
    THEN [store EXCEPT ![key] = NoEntry]
    ELSE store


flag_statute_caching_failures(run, feature_description, statute_content, api_key, outcome) ==
    IF statute_content = Blank THEN run
    ELSE
      LET key == cache_key(feature_description, statute_content)
          fresh_hit == HoldsFresh(run.store, key, now)
          cached_result == get_cached_value(run.store, key, now)
          looked == AfterLookup(run.store, key, now)
          stored == [looked EXCEPT ![key] = [result |-> outcome, timestamp |-> now]]
          caller == "flag_feature_for_compliance"
      IN  IF Truthy(cached_result)
          THEN [store |-> looked, file |-> run.file,
                flags |-> Append(run.flags, Flag(statute_content, cached_result, TRUE)),
                log |-> Append(run.log, Event(caller, statute_content, TRUE, fresh_hit, FALSE))]
          ELSE IF api_key
          THEN IF outcome = Raised
               THEN [store |-> [looked EXCEPT ![key] =
                                   [result |-> "Error processing with OpenRouter",
                                    timestamp |-> now]],
                     file |-> [looked EXCEPT ![key] =
                                  [result |-> "Error processing with OpenRouter",
                                   timestamp |-> now]],
                     flags |-> Append(run.flags,
                                      Flag(statute_content, "Error processing with OpenRouter", FALSE)),
                     log |-> Append(run.log,
                                    Event(caller, statute_content, TRUE, fresh_hit, TRUE))]
               ELSE [store |-> stored, file |-> stored,
                     flags |-> Append(run.flags, Flag(statute_content, outcome, FALSE)),
                     log |-> Append(run.log,
                                    Event(caller, statute_content, TRUE, fresh_hit, TRUE))]
          ELSE [store |-> looked, file |-> run.file,
                flags |-> Append(run.flags, Flag(statute_content, "COMPLIANCE ANALYSIS", FALSE)),
                log |-> Append(run.log, Event(caller, statute_content, TRUE, fresh_hit, FALSE))]

\* rag_simple.py:170-230: one iteration of the loop over relevant_statutes.
\* run holds the cache's dict and file, the flags and the log so far.
flag_statute(run, feature_description, statute_content, api_key, outcome) ==
    IF statute_content = Blank THEN run
    ELSE
      LET key == cache_key(feature_description, statute_content)
          fresh_hit == HoldsFresh(run.store, key, now)
          cached_result == get_cached_value(run.store, key, now)
          looked == AfterLookup(run.store, key, now)
          stored == [looked EXCEPT ![key] = [result |-> outcome, timestamp |-> now]]
          caller == "flag_feature_for_compliance"
      IN  IF Truthy(cached_result)
          THEN [store |-> looked, file |-> run.file,
                flags |-> Append(run.flags, Flag(statute_content, cached_result, TRUE)),
                log |-> Append(run.log, Event(caller, statute_content, TRUE, fresh_hit, FALSE))]
          ELSE IF api_key
          THEN IF outcome = Raised
               THEN [store |-> looked, file |-> run.file,
                     flags |-> Append(run.flags,
                                      Flag(statute_content, "Error processing with OpenRouter", FALSE)),
                     log |-> Append(run.log,
                                    Event(caller, statute_content, TRUE, fresh_hit, TRUE))]
               ELSE [store |-> stored, file |-> stored,
                     flags |-> Append(run.flags, Flag(statute_content, outcome, FALSE)),
                     log |-> Append(run.log,
                                    Event(caller, statute_content, TRUE, fresh_hit, TRUE))]
          ELSE [store |-> looked, file |-> run.file,
                flags |-> Append(run.flags, Flag(statute_content, "COMPLIANCE ANALYSIS", FALSE)),
                log |-> Append(run.log, Event(caller, statute_content, TRUE, fresh_hit, FALSE))]

\* rag_simple.py:170: for i, statute_data in enumerate(relevant_statutes)
RECURSIVE flag_statutes(_, _, _, _, _)
flag_statutes(run, feature_description, relevant_statutes, api_key, outcomes) ==
    IF relevant_statutes = <<>> THEN run
    ELSE flag_statutes(flag_statute(run, feature_description, Head(relevant_statutes),
                                    api_key, Head(outcomes)),
                       feature_description, Tail(relevant_statutes), api_key, Tail(outcomes))

\* rag_simple.py:164-232, called with a ComplianceCache and ENABLE_CACHE set
\* (config.py:28); outcomes[i] is what call_openrouter does if it is called
\* for the i-th statute
flag_feature_for_compliance(feature_description, relevant_statutes, api_key, outcomes) ==
    LET run == flag_statutes([store |-> cache, file |-> cache_file,
                              flags |-> <<>>, log |-> <<>>],
                             feature_description, relevant_statutes, api_key, outcomes)
    IN  /\ cache' = run.store
        /\ cache_file' = run.file
        /\ compliance_flags' = run.flags
        /\ collaborator_log' = run.log
        /\ UNCHANGED <<now, last_put, got>>
        /\ UNCHANGED <<orch_vars, shared_vars, retrieval_vars, host_vars, intent_vars, legal_vars, batch_vars>>

\* agents.py:43-120: the Legal Analyst hands the feature and the retrieved
\* documents to llm_client.analyze whenever it has an llm_client; it holds no
\* cache (agents.py:38-41)
LegalAnalysisAgent_analyze(feature_description, retrieved_docs, has_llm_client) ==
    /\ collaborator_log' =
          [i \in DOMAIN retrieved_docs |->
              Event("LegalAnalysisAgent.analyze", retrieved_docs[i], FALSE,
                    HoldsFresh(cache, cache_key(feature_description, retrieved_docs[i]), now),
                    has_llm_client)]
    /\ compliance_flags' = <<>>
    /\ UNCHANGED cache_vars
    /\ UNCHANGED <<orch_vars, shared_vars, retrieval_vars, host_vars, intent_vars, legal_vars, batch_vars>>

FlagInit ==
    /\ compliance_flags = <<>>
    /\ collaborator_log = <<>>

(***************************************************************************)
(* SimpleFallbackStore and LegalDocumentVectorStore, vector_store.py.      *)
(* A text is the sequence of its whitespace-separated words; the empty     *)
(* string and a string of blanks are <<>>.                                 *)
(***************************************************************************)
MaxDocs == 2

\* a document: its title and the words of its sections
LegalDocs ==
    {[title |-> "COPPA", body |-> {"age", "data"}],
     [title |-> "GDPR", body |-> {"data"}],
     [title |-> "", body |-> {}]}

Queries == {<<>>, <<"Age">>, <<"data">>, <<"data", "Age">>, <<"coppa", "DATA">>, <<"tax">>}
Limits == {1, 2}

\* str.lower()
Lower(w) ==
    CASE w = "Age" -> "age"
      [] w = "DATA" -> "data"
      [] w = "COPPA" -> "coppa"
      [] w = "GDPR" -> "gdpr"
      [] OTHER -> w

\* vector_store.py:181-190 (and 29-60): the words of title and sections
_extract_content(doc) ==
    (IF doc.title # "" THEN {doc.title} ELSE {}) \cup doc.body

\* vector_store.py:155 and 160: set(text.lower().split())
WordSet(words) == {Lower(w) : w \in words}
QueryWords(feature_description) ==
    WordSet({feature_description[i] : i \in DOMAIN feature_description})

\* vector_store.py:163: len(feature_words & content_words)
Overlap(feature_description, doc) ==
    Cardinality(QueryWords(feature_description) \cap WordSet(_extract_content(doc)))

\* vector_store.py:158-165: the documents with a positive overlap, in corpus order
RECURSIVE ScoredDocs(_, _)
ScoredDocs(feature_description, docs) ==
    IF docs = <<>> THEN <<>>
    ELSE LET overlap == Overlap(feature_description, Head(docs))
             rest == ScoredDocs(feature_description, Tail(docs))
         IN  IF overlap > 0
             THEN <<[overlap |-> overlap, doc |-> Head(docs)]>> \o rest
             ELSE rest

\* list.sort(key=..., reverse=True) is stable: an element goes behind the
\* elements that are not smaller
RECURSIVE InsertDescending(_, _)
InsertDescending(sorted, x) ==
    IF sorted = <<>> THEN <<x>>
    ELSE IF Head(sorted).overlap >= x.overlap
         THEN <<Head(sorted)>> \o InsertDescending(Tail(sorted), x)
         ELSE <<x>> \o sorted

RECURSIVE SortDescending(_)
SortDescending(scored) ==
    IF scored = <<>> THEN <<>>
    ELSE InsertDescending(SortDescending(SubSeq(scored, 1, Len(scored) - 1)),
                          scored[Len(scored)])

Min(a, b) == IF a <= b THEN a ELSE b

FallbackSearchUnsorted(docs, feature_description, n_results) ==
    LET scored == ScoredDocs(feature_description, docs)
    IN  SubSeq(scored, 1, Min(n_results, Len(scored)))

\* vector_store.py:153-179: scored_docs[:n_results] after the sort
FallbackSearch(docs, feature_description, n_results) ==
    LET sorted == SortDescending(ScoredDocs(feature_description, docs))
    IN  SubSeq(sorted, 1, Min(n_results, Len(sorted)))

SearchResult(store, feature_description, n_results, corpus_size, raised, found) ==
    [store |-> store, query |-> feature_description, n_results |-> n_results,
     corpus_size |-> corpus_size, raised |-> raised, documents |-> found]

NoSearch == SearchResult(None, <<>>, 0, 0, FALSE, <<>>)

\* vector_store.py:149-151
SimpleFallbackStore_add_documents(docs) ==
    /\ documents' = docs
    /\ UNCHANGED <<collection, search_result>>
    /\ UNCHANGED <<orch_vars, cache_vars, shared_vars, flag_vars, host_vars, intent_vars, legal_vars, batch_vars>>

\* vector_store.py:153-179
SimpleFallbackStore_search_relevant_statutes(feature_description, n_results) ==
    /\ search_result' =
          SearchResult("SimpleFallbackStore", feature_description, n_results, Len(documents),
                       FALSE, FallbackSearch(documents, feature_description, n_results))
    /\ UNCHANGED <<documents, collection>>
    /\ UNCHANGED <<orch_vars, cache_vars, shared_vars, flag_vars, host_vars, intent_vars, legal_vars, batch_vars>>

\* vector_store.py:67-118: documents without content and documents whose id
\* (the digest of title and url) is already in the collection are skipped
RECURSIVE AddToCollection(_, _)
AddToCollection(coll, docs) ==
    IF docs = <<>> THEN coll
    ELSE LET doc == Head(docs)
             known == \E i \in DOMAIN coll : coll[i].title = doc.title
         IN  IF _extract_content(doc) = {} \/ known
             THEN AddToCollection(coll, Tail(docs))
             ELSE AddToCollection(Append(coll, doc), Tail(docs))

LegalDocumentVectorStore_add_documents(docs) ==
    /\ collection' = AddToCollection(collection, docs)
    /\ UNCHANGED <<documents, search_result>>
    /\ UNCHANGED <<orch_vars, cache_vars, shared_vars, flag_vars, host_vars, intent_vars, legal_vars, batch_vars>>

\* collection.query(query_texts=[text], n_results=k) embeds the text and
\* returns the k nearest documents of the collection (all of them when it
\* holds fewer); the embedding is not part of this repository, so the ranking
\* is any order.  The text is embedded whatever it is, the empty string too.
Rankings(coll, k) ==
    {r \in SeqsUpTo({coll[i] : i \in DOMAIN coll}, Min(k, Len(coll))) :
        /\ Len(r) = Min(k, Len(coll))
        /\ \A i, j \in DOMAIN r : r[i] = r[j] => i = j}

\* vector_store.py:119-129; an exception of the query gives the empty result
LegalDocumentVectorStore_search_relevant_statutes(feature_description, n_results, raises) ==
    LET count == Len(collection)
        k == Min(n_results, IF count > 0 THEN count ELSE 1)
    IN  /\ \E ranking \in Rankings(collection, k) :
              search_result' =
                  SearchResult("LegalDocumentVectorStore", feature_description, n_results,
                               count, FALSE,
                               IF raises THEN <<>>
                               ELSE [i \in DOMAIN ranking |->
                                        [overlap |-> -1, doc |-> ranking[i]]])
        /\ UNCHANGED <<documents, collection>>
        /\ UNCHANGED <<orch_vars, cache_vars, shared_vars, flag_vars, host_vars, intent_vars, legal_vars, batch_vars>>

RetrievalInit ==
    /\ documents = <<>>
    /\ collection = <<>>
    /\ search_result = NoSearch

(***************************************************************************)
(* ComplianceService.analyze_code of the Extension Host,                   *)
(* services/compliance_service.py:58-322, and SimpleAnalyzer,              *)
(* analyzers/simple_analyzer.py.  Writes to stderr (utils/helpers.py:      *)
(* 108-128) succeed.                                                       *)
(***************************************************************************)
MaxPatterns == 2

RiskLevels == {"low", "medium", "high"}

\* the 'confidence' of a pattern in the LLM's JSON that is not a number
NotANumber == -1

RulePatternConfidences == {60, 90}
LLMPatternConfidences == {50, 90, NotANumber}
KeywordTotals == {0, 2, 5}

\* pattern_analyzer.find_patterns(code): it raises, or returns patterns
PatternAnalyses ==
    {[raised |-> TRUE, patterns |-> <<>>]}
    \cup {[raised |-> FALSE, patterns |-> ps] : ps \in SeqsUpTo(RulePatternConfidences, MaxPatterns)}

\* LLMResponse.compliance_insights: a dict with key_risks, critical_findings
\* and overall_assessment, a dict whose lists are not lists, or another value
Insights ==
    {[kind |-> "dict", total_risks |-> n, mentions |-> w] :
        n \in {0, 2, 3}, w \in {"", "critical", "high"}}
    \cup {[kind |-> "malformed dict", total_risks |-> 0, mentions |-> ""]}
    \cup {[kind |-> "str", total_risks |-> 0, mentions |-> w] :
            w \in {"", "critical", "medium"}}

NoInsights == [kind |-> None, total_risks |-> 0, mentions |-> ""]

\* llm_service.analyze_code: not available, None, an exception, or a response
LLMOutcomes ==
    {[kind |-> k, patterns_is_list |-> TRUE, patterns |-> <<>>, insights |-> NoInsights] :
        k \in {"unavailable", "none", Raised}}
    \cup {[kind |-> "response", patterns_is_list |-> FALSE, patterns |-> <<>>,
           insights |-> x] : x \in {[kind |-> "dict", total_risks |-> 0, mentions |-> ""]}}
    \cup {[kind |-> "response", patterns_is_list |-> TRUE, patterns |-> ps, insights |-> x] :
            ps \in SeqsUpTo(LLMPatternConfidences, MaxPatterns), x \in Insights}

\* the fields of a ComplianceResult that the risk assessment determines
HostResult(path, risk_level, confidence, human_review_needed) ==
    [path |-> path, risk_level |-> risk_level, confidence |-> confidence,
     human_review_needed |-> human_review_needed]

\* compliance_service.py:274-283
PatternRisk(patterns) ==
    LET high_risk_patterns == Len(SelectSeq(patterns, LAMBDA c : c > 80))
        medium_risk_patterns == Len(SelectSeq(patterns, LAMBDA c : 50 <= c /\ c <= 80))
    IN  IF high_risk_patterns >= 2 THEN "high"
        ELSE IF high_risk_patterns >= 1 \/ medium_risk_patterns >= 3 THEN "medium"
        ELSE "low"

\* compliance_service.py:286-314
InsightsRisk(insights) ==
    CASE insights.kind = "dict" ->
            IF insights.total_risks >= 3 \/ insights.mentions = "critical" THEN "high"
            ELSE IF insights.total_risks >= 2 \/ insights.mentions = "high" THEN "medium"
            ELSE "low"
      [] insights.kind = "malformed dict" -> "medium"
      [] OTHER ->
            IF insights.mentions = "critical" THEN "high"
            ELSE IF insights.mentions = "medium" THEN "medium"
            ELSE "low"

\* compliance_service.py:261-322: the highest of the two risk levels
_calculate_risk_level(patterns, insights) ==
    LET risk_scores == {PatternRisk(patterns), InsightsRisk(insights)}
    IN  IF "high" \in risk_scores THEN "high"
        ELSE IF "medium" \in risk_scores THEN "medium"
        ELSE "low"

EnhancedConfidenceUncapped(patterns) == 70 + Len(patterns) * 10

\* compliance_service.py:220-222: min(0.7 + len(patterns) * 0.1, 1.0)
EnhancedConfidence(patterns) == Min(70 + Len(patterns) * 10, 100)

\* compliance_service.py:183-259
_generate_enhanced_result(patterns, insights) ==
    LET risk_level == _calculate_risk_level(patterns, insights)
    IN  HostResult("enhanced", risk_level, EnhancedConfidence(patterns), risk_level = "high")

\* simple_analyzer.py:109-119
SimpleRisk(total_keywords, patterns) ==
    LET high_confidence_patterns == Len(SelectSeq(patterns, LAMBDA c : c > 80))
    IN  IF total_keywords >= 5 \/ high_confidence_patterns >= 2 THEN "high"
        ELSE IF total_keywords >= 2 \/ high_confidence_patterns >= 1 THEN "medium"
        ELSE "low"

\* simple_analyzer.py:121-130
SimpleConfidence(total_keywords, patterns) ==
    Min(40 + Min(total_keywords * 5, 30) + Min(Len(patterns) * 10, 20), 80)

\* simple_analyzer.py:24-60
SimpleAnalyzer_analyze(total_keywords, patterns) ==
    LET risk_level == SimpleRisk(total_keywords, patterns)
    IN  HostResult("simple", risk_level, SimpleConfidence(total_keywords, patterns),
                   risk_level = "high")

\* compliance_service.py:114-130: result generation raised
InnerErrorResult == HostResult("result generation failed", "medium", 20, TRUE)

\* compliance_service.py:135-151: something outside the inner handlers raised
OuterErrorResult == HostResult("analysis failed", "high", 10, TRUE)

\* compliance_service.py:58-151: the result analyze_code returns
analyze_code_result(pattern_analysis, total_keywords, llm) ==
    LET rule_patterns == IF pattern_analysis.raised THEN <<>> ELSE pattern_analysis.patterns
        \* 93-103: a response whose enhanced_patterns cannot be iterated makes
        \* _convert_llm_patterns raise, and llm_response is reset to None
        llm_response == llm.kind = "response" /\ llm.patterns_is_list
        patterns == IF llm_response THEN rule_patterns \o llm.patterns ELSE rule_patterns
    IN  IF llm_response /\ Len(patterns) > 0
        THEN \* 275: p.confidence > 0.8 raises TypeError for a non-number
             IF \E i \in DOMAIN patterns : patterns[i] = NotANumber
             THEN InnerErrorResult
             ELSE _generate_enhanced_result(patterns, llm.insights)
        ELSE SimpleAnalyzer_analyze(total_keywords, patterns)

NoHostCall ==
    [state |-> "idle", pattern_analysis |-> [raised |-> FALSE, patterns |-> <<>>],
     total_keywords |-> 0,
     llm |-> [kind |-> "unavailable", patterns_is_list |-> TRUE, patterns |-> <<>>,
              insights |-> NoInsights],
     result |-> HostResult(None, None, 0, FALSE)]

\* compliance_service.py:58-151; total_keywords is what SimpleAnalyzer counts
\* in the code string.  The service keeps nothing from one call to the next,
\* so a call from the initial state stands for every call.
analyze_code(pattern_analysis, total_keywords, llm) ==
    /\ host_call.state = "idle"
    /\ host_call' = [state |-> "returned", pattern_analysis |-> pattern_analysis,
                     total_keywords |-> total_keywords, llm |-> llm,
                     result |-> analyze_code_result(pattern_analysis, total_keywords, llm)]
    /\ UNCHANGED <<orch_vars, cache_vars, shared_vars, flag_vars, retrieval_vars, intent_vars, legal_vars, batch_vars>>

HostInit == host_call = NoHostCall

(***************************************************************************)
(* TikTokJargonResolver.detect_compliance_intent, jargon_resolver.py:       *)
(* 71-122, and IntentClassificationAgent.analyze, agents.py:262-282.       *)
(* A text is the set of its words.  The weights 0.15 and 0.1 are in        *)
(* hundredths and a normalised score is the exact fraction                 *)
(* <<numerator, denominator>>; Python computes the quotients in floating   *)
(* point, where their sum can differ from 1.0 in the last bit.             *)
(***************************************************************************)
IntentWords == {"law", "lawsuit", "GDPR", "market", "pilot", "regional", "filtering", "targeting"}
IntentTexts == SUBSET IntentWords

\* the entries of the lists at jargon_resolver.py:75-92 and 41-48 that occur
\* in a text over IntentWords, spelled as in the lists
compliance_keywords == {"law", "lawsuit", "GDPR"}
business_keywords == {"market", "pilot"}
ambiguous_keywords == {"regional", "filtering", "targeting"}
compliance_patterns == <<"regional", "filter", "GDPR", "region", "marketing">>

IntentLabels == <<"compliance", "business", "ambiguous">>

\* keyword in text_lower: the keyword is a substring of the lower-cased text
Occurs(keyword, text_lower) ==
    \E w \in text_lower :
        \/ keyword = w
        \/ <<keyword, w>> \in {<<"law", "lawsuit">>, <<"region", "regional">>,
                               <<"filter", "filtering">>}

\* jargon_resolver.py:94-113: the scores before normalisation.  The keywords
\* are compared as they are spelled, the patterns lower-cased.
RawIntentScores(text) ==
    LET text_lower == {Lower(w) : w \in text}
        hits(keywords) == Cardinality({k \in keywords : Occurs(k, text_lower)})
        pattern_hits == Cardinality({i \in DOMAIN compliance_patterns :
                                        Occurs(Lower(compliance_patterns[i]), text_lower)})
    IN  [compliance |-> 15 * hits(compliance_keywords) + 10 * pattern_hits,
         business |-> 15 * hits(business_keywords),
         ambiguous |-> 10 * hits(ambiguous_keywords)]

detect_compliance_intent_unnormalised(text) ==
    LET raw == RawIntentScores(text)
    IN  [k \in DOMAIN raw |-> <<raw[k], 100>>]

\* jargon_resolver.py:71-122
detect_compliance_intent(text) ==
    LET raw == RawIntentScores(text)
        total == raw.compliance + raw.business + raw.ambiguous
    IN  IF total > 0
        THEN [k \in DOMAIN raw |-> <<raw[k], total>>]
        ELSE [compliance |-> <<0, 1>>, business |-> <<0, 1>>, ambiguous |-> <<1, 1>>]

\* a < b for two fractions with positive denominators
LessFraction(a, b) == a[1] * b[2] < b[1] * a[2]

\* max(intent_scores, key=intent_scores.get): the first key, in the order of
\* the dictionary, whose value no other value exceeds
ArgMax(intent_scores) ==
    LET best == {i \in DOMAIN IntentLabels :
                    \A j \in DOMAIN IntentLabels :
                        ~LessFraction(intent_scores[IntentLabels[i]],
                                      intent_scores[IntentLabels[j]])}
    IN  IntentLabels[CHOOSE i \in best : \A j \in best : i <= j]

\* max(intent_scores.values())
MaxScore(intent_scores) ==
    LET values == {intent_scores[k] : k \in DOMAIN intent_scores}
    IN  CHOOSE v \in values : \A u \in values : ~LessFraction(v, u)

NoIntentCall ==
    [state |-> "idle", text |-> {}, intent |-> None, confidence |-> <<0, 1>>,
     scores |-> [compliance |-> <<0, 1>>, business |-> <<0, 1>>, ambiguous |-> <<0, 1>>]]

\* agents.py:262-282; text is the feature's name and description
\* (jargon_resolver.py:156-160)
IntentClassificationAgent_analyze(text) ==
    LET intent_scores == detect_compliance_intent(text)
    IN  /\ intent_call' = [state |-> "returned", text |-> text,
                           intent |-> ArgMax(intent_scores),
                           confidence |-> MaxScore(intent_scores),
                           scores |-> intent_scores]
        /\ UNCHANGED <<legal_vars, batch_vars>>
        /\ UNCHANGED <<orch_vars, cache_vars, shared_vars, flag_vars, retrieval_vars, host_vars>>

IntentInit == intent_call = NoIntentCall

(***************************************************************************)
(* LegalAnalysisAgent.analyze and its helpers, agents.py:43-254, with      *)
(* calculate_relevance_score, utils/relevance.py:75-106.  A text is the    *)
(* set of the lower-case terms that occur in it; the weights of the        *)
(* relevance score are in hundredths.                                      *)
(***************************************************************************)
RELEVANCE_THRESHOLD == 50
MaxRetrieved == 2

\* the entries of config.py:47-65 and of the lists at relevance.py:57-60 and
\* agents.py:246-247 that occur in the texts below
US_STATES == {"utah", "texas"}
COMPLIANCE_TOPICS == {"age verification", "parental consent", "privacy"}
regulation_keywords == {"coppa", "gdpr"}
high_risk_indicators == {"penalty", "fine"}
medium_risk_indicators == {"must", "shall"}

LegalFeatureTexts ==
    {{"utah", "age verification", "parental consent", "privacy", "coppa"},
     {"age verification", "parental consent", "privacy"}}

\* a retrieved document with its metadata.  Both stores emit the keys title,
\* url and doc_type (vector_store.py:89-94 and 172-176): the metadata has no
\* key content_type.
RetrievedStatutes ==
    {[title |-> "COPPA", content_type |-> Missing,
      text |-> {"coppa", "age verification", "parental consent", "penalty", "must"}],
     [title |-> "Utah Act", content_type |-> Missing,
      text |-> {"utah", "age verification", "shall"}],
     [title |-> "GDPR", content_type |-> Missing,
      text |-> {"gdpr", "privacy", "age verification", "parental consent"}],
     [title |-> "Blank", content_type |-> Missing, text |-> {}]}

\* relevance.py:5-25
extract_locations(text) == text \cap US_STATES

\* relevance.py:27-52
extract_key_topics(text) == text \cap COMPLIANCE_TOPICS

\* relevance.py:54-73
has_specific_regulation_match(feature_description, statute_content) ==
    (feature_description \cap regulation_keywords)
        \cap (statute_content \cap regulation_keywords) # {}

\* relevance.py:75-106
calculate_relevance_score(feature_description, statute_content, statute_metadata) ==
    LET feature_locations == extract_locations(feature_description)
        statute_locations == extract_locations(statute_content)
        geographic == IF feature_locations \cap statute_locations # {} THEN 40
                      ELSE IF feature_locations # {} /\ statute_locations = {} THEN 10
                      ELSE IF feature_locations = {} THEN 20
                      ELSE 0
        topic_overlap == Cardinality(extract_key_topics(feature_description)
                                        \cap extract_key_topics(statute_content))
        topic_score == Min(topic_overlap * 10, 40)
        specific == IF has_specific_regulation_match(feature_description, statute_content)
                    THEN 20 ELSE 0
        bonus == IF statute_metadata.content_type = "legal_statute" THEN 5 ELSE 0
    IN  Min(geographic + topic_score + specific + bonus, 100)

\* agents.py:242-254
_assess_risk(regulation_text) ==
    IF regulation_text \cap high_risk_indicators # {} THEN "high"
    ELSE IF regulation_text \cap medium_risk_indicators # {} THEN "medium"
    ELSE "low"

RegulationEntry(regulation, relevance, compliance_risk) ==
    [regulation |-> regulation, relevance |-> relevance, compliance_risk |-> compliance_risk]

MeetsThresholdStrictly(relevance_score) == relevance_score > RELEVANCE_THRESHOLD

\* agents.py:106
MeetsThreshold(relevance_score) == relevance_score >= RELEVANCE_THRESHOLD

\* agents.py:98-118: the loop over the retrieved documents.  An empty
\* document is skipped (agents.py:100-101).
RECURSIVE VectorSearchAnalysis(_, _)
VectorSearchAnalysis(feature_description, docs) ==
    IF docs = <<>> THEN <<>>
    ELSE LET doc == Head(docs)
             rest == VectorSearchAnalysis(feature_description, Tail(docs))
             relevance_score == calculate_relevance_score(feature_description, doc.text, doc)
         IN  IF doc.text = {} THEN rest
             ELSE IF MeetsThreshold(relevance_score)
                  THEN <<RegulationEntry(doc.title, relevance_score, _assess_risk(doc.text))>>
                       \o rest
                  ELSE rest

\* what the text-completion collaborator does: there is none, the call
\* raises, or it returns a value: something that is not a string, a text
\* without braces, a text with an opening brace only, a text whose braces
\* hold no JSON, JSON of the expected shape, or JSON whose fields have other
\* types.  named: the regulations a text names; says: its risk wording.
LegalLLMOutcomes ==
    {[kind |-> k, named |-> <<>>, says |-> "", patterns |-> <<>>, risk_score |-> -1] :
        k \in {"no client", Raised, "not a string", "json of another shape"}}
    \cup {[kind |-> k, named |-> n, says |-> w, patterns |-> <<>>, risk_score |-> -1] :
            k \in {"text", "unbalanced braces", "invalid json"},
            n \in {<<>>, <<"COPPA">>}, w \in {"", "high risk", "minimal"}}
    \cup {[kind |-> "json", named |-> <<>>, says |-> "", patterns |-> ps, risk_score |-> r] :
            ps \in {<<>>, <<[pattern_name |-> "COPPA", confidence |-> 80, severity |-> "high"]>>},
            r \in {-1, 30, 60, 90}}

Parsed(raises, path, confidence, sets_regulations, regulations, risk_level) ==
    [raises |-> raises, path |-> path, confidence |-> confidence,
     sets_regulations |-> sets_regulations, applicable_regulations |-> regulations,
     risk_level |-> risk_level]

\* agents.py:172-203
_extract_insights_from_llm_text(llm) ==
    Parsed(FALSE, "text scan", 70, TRUE,
           [i \in DOMAIN llm.named |-> RegulationEntry(llm.named[i], 80, "medium")],
           IF llm.says = "high risk" THEN "high"
           ELSE IF llm.says = "minimal" THEN "low"
           ELSE "medium")

\* agents.py:122-170.  Only json.JSONDecodeError is caught here: a value
\* without .find and JSON whose fields have other types raise AttributeError
\* or TypeError out of the method.
_parse_enhanced_llm_response(llm) ==
    CASE llm.kind \in {"not a string", "json of another shape"} ->
            Parsed(TRUE, "raised", 0, FALSE, <<>>, Missing)
      [] llm.kind = "json" ->
            Parsed(FALSE, "json", 90, llm.patterns # <<>>,
                   [i \in DOMAIN llm.patterns |->
                       RegulationEntry(llm.patterns[i].pattern_name, llm.patterns[i].confidence,
                                       llm.patterns[i].severity)],
                   IF llm.risk_score = -1 THEN Missing
                   ELSE IF llm.risk_score > 80 THEN "high"
                   ELSE IF llm.risk_score > 50 THEN "medium"
                   ELSE "low")
      [] OTHER -> _extract_insights_from_llm_text(llm)

LegalAnalysis(path, confidence, regulations, risk_level) ==
    [path |-> path, confidence |-> confidence, applicable_regulations |-> regulations,
     risk_level |-> risk_level]

InitialLegalAnalysisMedium == LegalAnalysis("vector search", 50, <<>>, "medium")

\* agents.py:50-57
InitialLegalAnalysis == LegalAnalysis("vector search", 0, <<>>, "low")

EnhancedLegalAnalysisUncaught(analysis, llm) ==
    LET parsed == _parse_enhanced_llm_response(llm)
    IN  IF llm.kind = "no client" THEN [raised |-> FALSE, analysis |-> analysis]
        ELSE IF llm.kind = Raised \/ parsed.raises
        THEN [raised |-> TRUE, analysis |-> analysis]
        ELSE [raised |-> FALSE,
              analysis |->
                  LegalAnalysis(parsed.path, parsed.confidence,
                                IF parsed.sets_regulations THEN parsed.applicable_regulations
                                ELSE analysis.applicable_regulations,
                                IF parsed.risk_level = Missing THEN analysis.risk_level
                                ELSE parsed.risk_level)]

\* agents.py:59-95: the call of the collaborator and analysis.update(...)
\* inside try / except Exception
EnhancedLegalAnalysis(analysis, llm) ==
    LET parsed == _parse_enhanced_llm_response(llm)
    IN  IF llm.kind = "no client" THEN [raised |-> FALSE, analysis |-> analysis]
        ELSE IF llm.kind = Raised \/ parsed.raises
        THEN [raised |-> FALSE, analysis |-> analysis]
        ELSE [raised |-> FALSE,
              analysis |->
                  LegalAnalysis(parsed.path, parsed.confidence,
                                IF parsed.sets_regulations THEN parsed.applicable_regulations
                                ELSE analysis.applicable_regulations,
                                IF parsed.risk_level = Missing THEN analysis.risk_level
                                ELSE parsed.risk_level)]

\* agents.py:43-120: the finding analyze returns
LegalAnalysisAgent_analyze_result(feature_description, relevant_regs, llm) ==
    LET enhanced == EnhancedLegalAnalysis(InitialLegalAnalysis, llm)
        analysis == enhanced.analysis
    IN  IF enhanced.raised THEN [raised |-> TRUE, analysis |-> analysis]
        ELSE IF analysis.applicable_regulations = <<>> /\ relevant_regs # <<>>
        THEN [raised |-> FALSE,
              analysis |-> [analysis EXCEPT !.applicable_regulations =
                               VectorSearchAnalysis(feature_description, relevant_regs)]]
        ELSE [raised |-> FALSE, analysis |-> analysis]

NoLegalCall ==
    [state |-> "idle", feature_description |-> {}, relevant_regs |-> <<>>,
     llm |-> [kind |-> "no client", named |-> <<>>, says |-> "", patterns |-> <<>>,
              risk_score |-> -1],
     analysis |-> InitialLegalAnalysis]

\* agents.py:43-120.  The agent keeps nothing from one call to the next, so
\* a call from the initial state stands for every call.
LegalAnalysisAgent_analyze_feature(feature_description, relevant_regs, llm) ==
    LET returned == LegalAnalysisAgent_analyze_result(feature_description, relevant_regs, llm)
    IN  /\ legal_call.state = "idle"
        /\ legal_call' = [state |-> IF returned.raised THEN "raised" ELSE "returned",
                          feature_description |-> feature_description,
                          relevant_regs |-> relevant_regs, llm |-> llm,
                          analysis |-> returned.analysis]
        /\ UNCHANGED <<intent_vars, batch_vars>>
        /\ UNCHANGED <<orch_vars, cache_vars, shared_vars, flag_vars, retrieval_vars, host_vars>>

LegalInit == legal_call = NoLegalCall

(***************************************************************************)
(* EnhancedComplianceSystem.analyze_feature_list, enhanced_main.py:141-244.*)
(* The orchestrator and the code analyzer are collaborators: each returns  *)
(* or raises.  Writes to stdout succeed.                                   *)
(***************************************************************************)
MaxFeatures == 2

\* a feature of the list: its 'id' (Missing when it has none) and whether it
\* has a 'code' key
FeatureItems ==
    {[id |-> "a", has_code |-> TRUE],
     [id |-> "b", has_code |-> FALSE],
     [id |-> Missing, has_code |-> FALSE]}

\* what orchestrator.analyze_feature(feature) does: it raises, or it returns
\* a verdict (the last one is the verdict of its failure path)
AgentAnalyses ==
    {[raised |-> TRUE, needs_compliance_logic |-> FALSE, risk_level |-> None,
      action_required |-> None, human_review_needed |-> FALSE],
     [raised |-> FALSE, needs_compliance_logic |-> FALSE, risk_level |-> "low",
      action_required |-> "NO_ACTION", human_review_needed |-> FALSE],
     [raised |-> FALSE, needs_compliance_logic |-> TRUE, risk_level |-> "high",
      action_required |-> "URGENT_COMPLIANCE", human_review_needed |-> FALSE],
     [raised |-> FALSE, needs_compliance_logic |-> TRUE, risk_level |-> "low",
      action_required |-> "HUMAN_REVIEW", human_review_needed |-> TRUE],
     [raised |-> FALSE, needs_compliance_logic |-> FALSE, risk_level |-> "unknown",
      action_required |-> "HUMAN_REVIEW", human_review_needed |-> TRUE]}

\* one pass of the loop: the orchestrator's outcome, whether
\* analyze_code_snippet raises if it is called, and whether
\* _format_result_for_export raises on the result (round(confidence, 3) on a
\* confidence that is no number)
FeatureOutcomes ==
    {[agent_analysis |-> a, code_raises |-> c, export_raises |-> x] :
        a \in AgentAnalyses, c \in BOOLEAN, x \in BOOLEAN}

\* feature.get('id', f'feature_{i}')
feature_id(item, i) ==
    IF item.id = Missing THEN "feature_" \o ToString(i) ELSE item.id

DetailedResult(id, analysis_type, risk_level, action_required) ==
    [feature_id |-> id, analysis_type |-> analysis_type, risk_level |-> risk_level,
     action_required |-> action_required]

\* enhanced_main.py:145-157
NewResults(features) ==
    [analysis_summary |->
        [total_features |-> Len(features), features_requiring_compliance |-> 0,
         high_risk_features |-> 0, human_review_needed |-> 0],
     detailed_results |-> <<>>]

\* the try block raises before it has appended to detailed_results
AnalysisRaises(item, include_code_analysis, outcome) ==
    \/ outcome.agent_analysis.raised
    \/ include_code_analysis /\ item.has_code /\ outcome.code_raises
    \/ outcome.export_raises

analyze_one_feature_skipping_failed(results, item, i, include_code_analysis, outcome) ==
    LET agent_analysis == outcome.agent_analysis
        summary == results.analysis_summary
    IN  IF AnalysisRaises(item, include_code_analysis, outcome)
        THEN results
        ELSE [analysis_summary |->
                 [summary EXCEPT
                     !.features_requiring_compliance =
                         IF agent_analysis.needs_compliance_logic THEN @ + 1 ELSE @,
                     !.high_risk_features =
                         IF agent_analysis.risk_level = "high" THEN @ + 1 ELSE @,
                     !.human_review_needed =
                         IF agent_analysis.human_review_needed THEN @ + 1 ELSE @],
              detailed_results |->
                 Append(results.detailed_results,
                        DetailedResult(feature_id(item, i), "comprehensive",
                                       agent_analysis.risk_level,
                                       agent_analysis.action_required))]

\* enhanced_main.py:159-230: one pass of the loop over the features
analyze_one_feature(results, item, i, include_code_analysis, outcome) ==
    LET agent_analysis == outcome.agent_analysis
        summary == results.analysis_summary
    IN  IF AnalysisRaises(item, include_code_analysis, outcome)
        THEN \* 213-230
             [analysis_summary |->
                 [summary EXCEPT !.human_review_needed = @ + 1],
              detailed_results |->
                 Append(results.detailed_results,
                        DetailedResult(feature_id(item, i), "error", "unknown",
                                       "HUMAN_REVIEW"))]
        ELSE \* 162-211
             [analysis_summary |->
                 [summary EXCEPT
                     !.features_requiring_compliance =
                         IF agent_analysis.needs_compliance_logic THEN @ + 1 ELSE @,
                     !.high_risk_features =
                         IF agent_analysis.risk_level = "high" THEN @ + 1 ELSE @,
                     !.human_review_needed =
                         IF agent_analysis.human_review_needed THEN @ + 1 ELSE @],
              detailed_results |->
                 Append(results.detailed_results,
                        DetailedResult(feature_id(item, i), "comprehensive",
                                       agent_analysis.risk_level,
                                       agent_analysis.action_required))]

NoBatchCall ==
    [state |-> "idle", features |-> <<>>, include_code_analysis |-> FALSE,
     raised |-> <<>>, results |-> NewResults(<<>>)]

\* enhanced_main.py:141-157: the call, up to the loop
analyze_feature_list(features, include_code_analysis) ==
    /\ batch_call.state = "idle"
    /\ batch_call' = [state |-> "analyzing", features |-> features,
                      include_code_analysis |-> include_code_analysis,
                      raised |-> <<>>, results |-> NewResults(features)]
    /\ UNCHANGED <<intent_vars, legal_vars>>
    /\ UNCHANGED <<orch_vars, cache_vars, shared_vars, flag_vars, retrieval_vars, host_vars>>

\* enhanced_main.py:159-230: the pass for the next feature; raised records
\* whether its try block raised
analyze_next_feature(outcome) ==
    LET i == Len(batch_call.raised) + 1
    IN  /\ batch_call.state = "analyzing"
        /\ i <= Len(batch_call.features)
        /\ batch_call' =
              [batch_call EXCEPT
                  !.raised = Append(@, AnalysisRaises(batch_call.features[i],
                                                      batch_call.include_code_analysis,
                                                      outcome)),
                  !.results = analyze_one_feature(@, batch_call.features[i], i,
                                                  batch_call.include_code_analysis, outcome)]
        /\ UNCHANGED <<intent_vars, legal_vars>>
        /\ UNCHANGED <<orch_vars, cache_vars, shared_vars, flag_vars, retrieval_vars, host_vars>>

\* enhanced_main.py:232-242: the loop is over and results is returned
return_results ==
    /\ batch_call.state = "analyzing"
    /\ Len(batch_call.raised) = Len(batch_call.features)
    /\ batch_call' = [batch_call EXCEPT !.state = "returned"]
    /\ UNCHANGED <<intent_vars, legal_vars>>
    /\ UNCHANGED <<orch_vars, cache_vars, shared_vars, flag_vars, retrieval_vars, host_vars>>

BatchInit == batch_call = NoBatchCall

(***************************************************************************)
(* Specifications.                                                         *)
(***************************************************************************)
Init ==
    /\ OrchInit /\ CacheInitState /\ SharedInit /\ FlagInit /\ RetrievalInit /\ HostInit
    /\ IntentInit /\ LegalInit /\ BatchInit

Next ==
    \/ \E f \in Features : Call(f)
    \/ \E i \in AgentIdx : \E r \in FindingsOf(i) : AgentReturn(i, r)
    \/ \E i \in AgentIdx : AgentRaise(i)
    \/ Consolidate

Spec == Init /\ [][Next]_vars

\* The orchestrator's own steps and the agents without a suspension point
\* (Intent Classifier, Technical Analyst) always run.  The Legal Analyst
\* awaits its collaborators (agents.py:46, 80); nothing in the code bounds
\* that wait, so its completion carries no fairness.
FairSpec ==
    /\ Init
    /\ [][Next]_vars
    /\ WF_vars(\E f \in Features : Call(f))
    /\ \A i \in {1, 3} : WF_vars((\E r \in FindingsOf(i) : AgentReturn(i, r)) \/ AgentRaise(i))
    /\ WF_vars(Consolidate)

\* the (feature, statute) pairs the cache is called with: two statutes for
\* one feature, and another feature
CachedPairs == {<<"a", "a">>, <<"a", "b">>, <<"b", "b">>}

CacheNext ==
    \/ \E p \in CachedPairs, v \in Values : cache_result(p[1], p[2], v)
    \/ \E p \in CachedPairs : get_cached_result(p[1], p[2])
    \/ clear_expired
    \/ load_cache
    \/ Tick

CacheSpec == Init /\ [][CacheNext]_vars

SharedCacheNext ==
    \/ \E h \in Holders : ComplianceCache_init(h)
    \/ \E h \in Holders, s \in Texts, r \in Texts, v \in Values : cache_result_open(h, s, r, v)
    \/ \E h \in Holders : cache_result_dump(h)

SharedCacheSpec == Init /\ [][SharedCacheNext]_vars

FlagNext ==
    \/ \E statutes \in StatuteLists, api_key \in BOOLEAN :
          \E outcomes \in [DOMAIN statutes -> Outcomes] :
              flag_feature_for_compliance(FlaggedFeature, statutes, api_key, outcomes)
    \/ \E docs \in RetrievedLists, has_llm_client \in BOOLEAN :
          LegalAnalysisAgent_analyze(FlaggedFeature, docs, has_llm_client)
    \/ Tick

FlagSpec == Init /\ [][FlagNext]_vars

RetrievalNext ==
    \/ \E docs \in SeqsUpTo(LegalDocs, MaxDocs) : SimpleFallbackStore_add_documents(docs)
    \/ \E docs \in SeqsUpTo(LegalDocs, MaxDocs) : LegalDocumentVectorStore_add_documents(docs)
    \/ \E q \in Queries, n \in Limits : SimpleFallbackStore_search_relevant_statutes(q, n)
    \/ \E q \in Queries, n \in Limits, query_raises \in BOOLEAN :
          LegalDocumentVectorStore_search_relevant_statutes(q, n, query_raises)

RetrievalSpec == Init /\ [][RetrievalNext]_vars

HostNext ==
    /\ host_call.state = "idle"
    /\ \E pattern_analysis \in PatternAnalyses, total_keywords \in KeywordTotals,
          llm \in LLMOutcomes : analyze_code(pattern_analysis, total_keywords, llm)

HostSpec == Init /\ [][HostNext]_vars

IntentNext == \E text \in IntentTexts : IntentClassificationAgent_analyze(text)

IntentSpec == Init /\ [][IntentNext]_vars

LegalNext ==
    /\ legal_call.state = "idle"
    /\ \E feature_description \in LegalFeatureTexts,
          relevant_regs \in SeqsUpTo(RetrievedStatutes, MaxRetrieved),
          llm \in LegalLLMOutcomes :
          LegalAnalysisAgent_analyze_feature(feature_description, relevant_regs, llm)

LegalSpec == Init /\ [][LegalNext]_vars

BatchNext ==
    \/ \E features \in SeqsUpTo(FeatureItems, MaxFeatures), include_code_analysis \in BOOLEAN :
          analyze_feature_list(features, include_code_analysis)
    \/ \E outcome \in FeatureOutcomes : analyze_next_feature(outcome)
    \/ return_results

BatchSpec == Init /\ [][BatchNext]_vars

(***************************************************************************)
(* Properties.                                                             *)
(***************************************************************************)
Failed == {i \in AgentIdx : task[i] = "failed"}

\* position of agent i in the completion order (0: not finished)
CompletedAt(i) ==
    IF \E k \in DOMAIN completed : completed[k] = i
    THEN CHOOSE k \in DOMAIN completed : completed[k] = i
    ELSE 0

Permutations3 == {p \in [AgentIdx -> AgentIdx] : \A i, j \in AgentIdx : p[i] = p[j] => i = j}

RECURSIVE NoDuplicates(_)
NoDuplicates(s) ==
    \/ s = <<>>
    \/ /\ \A k \in 2..Len(s) : s[k] # Head(s)
       /\ NoDuplicates(Tail(s))

\* C1: in every verdict analyze_feature returns, risk_level == 'high' or
\* agent_consensus < 0.5 implies human_review_needed.
C1_HighRiskOrLowConsensusForcesReview ==
    pc = "returned" =>
        ((verdict.risk_level = "high" \/ LessThanHalf(verdict.agent_consensus))
            => verdict.human_review_needed)

\* C2: in every verdict, human_review_needed implies action_required is
\* HUMAN_REVIEW, also when review is forced only by low agent consensus.
C2_ReviewImpliesHumanReviewAction ==
    pc = "returned" =>
        (verdict.human_review_needed => verdict.action_required = "HUMAN_REVIEW")

\* C3: an agent that raises neither cancels nor blocks the other agents, and
\* the validator receives exactly one finding per registered agent: the
\* finding the agent returned, or for a failed agent a placeholder with that
\* agent's name, confidence 0 and a reasoning describing the failure.
C3_OneFindingPerAgent ==
    /\ pc = "gathering" =>
          \A i \in AgentIdx :
              /\ task[i] \in {"pending", "done", "failed"}
              /\ task[i] = "pending" => ENABLED (\E r \in FindingsOf(i) : AgentReturn(i, r))
    /\ pc = "returned" =>
          /\ Len(valid_results) = Len(agents)
          /\ \A i \in AgentIdx :
                /\ valid_results[i].agent = agents[i]
                /\ task[i] = "done" => valid_results[i] = result[i]
                /\ task[i] = "failed" =>
                      /\ valid_results[i].confidence = 0
                      /\ valid_results[i].error
                      /\ valid_results[i].reasoning = "Agent failed"

\* C3 witness: an agent raised first, the two others returned their findings
\* afterwards, and the validator was handed the list.
C3_Witness ==
    /\ pc = "returned"
    /\ \E i \in AgentIdx :
          /\ task[i] = "failed"
          /\ CompletedAt(i) = 1
          /\ \A j \in AgentIdx \ {i} : task[j] = "done" /\ valid_results[j] = result[j]

\* C4: when exactly one agent fails, the verdict has human_review_needed and
\* its reasoning reflects the findings of the two agents that succeeded (it
\* is not the "Analysis failed" verdict).
C4_OneFailedAgentForcesReview ==
    (pc = "returned" /\ Cardinality(Failed) = 1) =>
        /\ verdict.human_review_needed
        /\ ~verdict.error

\* C5: analyze_feature never raises to its caller, also for a malformed
\* feature; when the fan-out cannot be carried out the verdict has
\* risk_level 'unknown', action HUMAN_REVIEW and human_review_needed.
C5_NeverRaises ==
    /\ pc # "raised"
    /\ (pc = "returned" /\ verdict.error) =>
          /\ verdict.risk_level = "unknown"
          /\ verdict.action_required = "HUMAN_REVIEW"
          /\ verdict.human_review_needed

\* C6: once the agents have been started, analyze_feature eventually returns,
\* every agent that did not finish being represented by a placeholder with
\* confidence 0 (a request-level timeout cancels what is still pending).
C6_TimeoutReturns ==
    (pc = "gathering") ~>
        (pc = "returned" /\ \A i \in AgentIdx : task[i] # "done" => valid_results[i] = Placeholder(i))

C8_AmbiguousForcesReview ==
    pc = "returned" =>
        (FindAgent(valid_results, agents[1]).intent = "ambiguous" => verdict.human_review_needed)

\* C8 witness: ambiguous intent while the agents' consensus is not low and
\* the Legal Analyst reports regulations.
C8_Witness ==
    /\ pc = "returned"
    /\ FindAgent(valid_results, agents[1]).intent = "ambiguous"
    /\ ~LessThanHalf(verdict.agent_consensus)
    /\ verdict.applicable_regulations # <<>>
    /\ verdict.human_review_needed

\* C9: the verdict's applicable_regulations contains each regulation name
\* exactly once, also when a name occurs more than once in the findings.
C9_RegulationsDeduplicated ==
    pc = "returned" => NoDuplicates(verdict.applicable_regulations)

\* C10: cache_result(s, r, v) followed by get_cached_result(s, r) before the
\* TTL elapses returns v, whatever puts for other pairs happened in between.
C10_GetAfterPut ==
    got # NoGet =>
        LET p == last_put[<<got.subject, got.reference>>]
        IN  (p # NoPut /\ got.at - p.at < expiry_days) => got.value = p.value

\* C10 witness: a get returns the value put earlier although another pair
\* was put, with another value, after it.
C10_Witness ==
    /\ got # NoGet
    /\ LET p == last_put[<<got.subject, got.reference>>]
       IN  /\ p # NoPut
           /\ got.value = p.value
           /\ \E q \in (Texts \X Texts) \ {<<got.subject, got.reference>>} :
                 /\ last_put[q] # NoPut
                 /\ last_put[q].at > p.at
                 /\ last_put[q].value # p.value

\* C11: an entry older than expiry_days is never returned: get_cached_result
\* on it returns None and deletes it from the store in that same call.
C11_ExpiredNeverReturned ==
    [][got' # NoGet =>
          LET key == cache_key(got'.subject, got'.reference)
          IN  (cache[key] # NoEntry /\ now - cache[key].timestamp > expiry_days)
                  => (got'.value = None /\ cache'[key] = NoEntry)]_vars

\* C11 witness: a pair was put, more than expiry_days passed, and the lookup
\* of that pair returned None and deleted the entry from the in-memory store
\* (no clear_expired ran: the file still holds the entry).
C11_Witness ==
    /\ got # NoGet
    /\ got.value = None
    /\ LET p == last_put[<<got.subject, got.reference>>]
           key == cache_key(got.subject, got.reference)
       IN  /\ p # NoPut
           /\ got.at - p.at > expiry_days
           /\ cache[key] = NoEntry
           /\ cache_file[key] # NoEntry

\* C12: every cache_result leaves the whole in-memory store in the file, and
\* a ComplianceCache constructed on that file returns the value last put for
\* a (subject, reference) as long as less than expiry_days have passed.
C12_PutSurvivesRestart ==
    /\ [][last_put' # last_put => cache_file' = cache']_vars
    /\ [](\A p \in Texts \X Texts :
             (last_put[p] # NoPut /\ now - last_put[p].at < expiry_days)
                 => get_cached_value(cache_file, cache_key(p[1], p[2]), now) = last_put[p].value)

\* C12 witness: time has passed since a put, the store in memory is the one
\* a new instance would load from the file, a lookup returned the value put,
\* and the file was rewritten meanwhile (an older pair is gone from it).
C12_Witness ==
    /\ got # NoGet
    /\ cache = cache_file
    /\ LET p == last_put[<<got.subject, got.reference>>]
       IN  /\ p # NoPut
           /\ got.at > p.at
           /\ got.value = p.value
           /\ \E q \in Texts \X Texts :
                 /\ last_put[q] # NoPut
                 /\ cache_file[cache_key(q[1], q[2])] = NoEntry

\* C13: when two holders of the cache on one backing file each perform
\* cache_result, in any interleaving, no completed write is lost: once no
\* write is in progress the file holds, for every key, the value of the last
\* cache_result that returned for it.
C13_NoCompletedWriteLost ==
    (\A h \in Holders : holders[h].state # "saving") =>
        \A k \in CacheKeys :
            acked[k] # None =>
                /\ ~shared_file.truncated
                /\ shared_file.content[k].result = acked[k]

\* C14: the text-completion collaborator is called for a (feature, reference)
\* pair only after the cache was looked up for that pair, and it is not
\* called when the cache holds a non-expired entry for the pair.
C14_CacheBeforeCollaborator ==
    \A i \in DOMAIN collaborator_log :
        LET e == collaborator_log[i]
        IN  /\ e.called => e.looked_up
            /\ e.fresh_hit => ~e.called

\* C15: search_relevant_statutes does not raise and returns no documents
\* when the query is the empty string or the store holds no documents.
C15_NothingToMatchIsEmpty ==
    search_result.store # None =>
        /\ ~search_result.raised
        /\ (search_result.query = <<>> \/ search_result.corpus_size = 0)
              => search_result.documents = <<>>

\* C17: the caller's feature dictionary is the one that was handed in, with
\* the same keys and values, from the call until after analyze_feature has
\* returned or raised; the expanded description is stored only in the
\* orchestrator's copy.
C17_FeatureImmutable ==
    [][/\ (pc = "idle" /\ pc' # "idle") =>
             \E f \in Features :
                 /\ feature' = f
                 /\ expanded_feature' \in {f, [f EXCEPT !.expanded_description = "expanded"]}
       /\ pc # "idle" => feature' = feature]_vars

\* C17 witness: analyze_feature returned through its failure path; the
\* orchestrator's copy holds the expanded description and the caller's
\* dictionary still has no such key.
C17_Witness ==
    /\ pc = "returned"
    /\ verdict.error
    /\ expanded_feature.expanded_description = "expanded"
    /\ feature.expanded_description = Missing
    /\ feature \in Features

ValidHostResult(r) ==
    /\ r.risk_level \in RiskLevels
    /\ 0 <= r.confidence
    /\ r.confidence <= 100

\* C18: analyze_code returns a result, it does not raise, and the result's
\* risk_level is low, medium or high and its confidence lies in [0, 1], on
\* the LLM-enhanced path, the SimpleAnalyzer path and the error fallbacks.
C18_AnalyzeCodeResultInRange ==
    /\ host_call.state \in {"idle", "returned"}
    /\ host_call.state = "returned" => ValidHostResult(host_call.result)
    /\ ValidHostResult(InnerErrorResult)
    /\ ValidHostResult(OuterErrorResult)

\* C18 witness: the LLM-enhanced path with four patterns, where the
\* confidence reaches its cap of 1.0.
C18_Witness ==
    /\ host_call.state = "returned"
    /\ host_call.result.path = "enhanced"
    /\ Len(host_call.pattern_analysis.patterns) + Len(host_call.llm.patterns) = 4
    /\ host_call.result.confidence = 100

\* C19: agent_consensus is the mean of the confidences of all findings handed
\* to the validator, one per agent, zero confidences included in the sum and
\* in the divisor.
C19_ConsensusIsMeanOfAll ==
    (pc = "returned" /\ ~verdict.error) =>
        verdict.agent_consensus[1] * Len(valid_results)
            = SumSeq([i \in DOMAIN valid_results |-> valid_results[i].confidence])
                * verdict.agent_consensus[2]

\* C20: if the intent is 'compliance' or the Legal Analyst's finding has
\* regulation entries, the verdict has needs_compliance_logic and the Legal
\* Analyst's risk_level ('low' when the finding has none); otherwise
\* needs_compliance_logic is false.
C20_ComplianceAdoptsLegalRisk ==
    (pc = "returned" /\ ~verdict.error) =>
        LET intent_result == FindAgent(valid_results, agents[1])
            legal_result == FindAgent(valid_results, agents[2])
        IN  IF \/ intent_result.intent = "compliance"
               \/ legal_result.applicable_regulations # <<>>
            THEN /\ verdict.needs_compliance_logic
                 /\ verdict.risk_level = (IF legal_result.risk_level = Missing THEN "low"
                                          ELSE legal_result.risk_level)
            ELSE ~verdict.needs_compliance_logic

\* C21: the verdict's confidence is the maximum confidence among the findings
\* that contributed a positive signal (the Intent Classifier's finding when
\* its intent is 'compliance', the Legal Analyst's finding when it has
\* regulation entries); the confidence of a finding without a positive signal
\* does not determine it when such a finding exists.
C21_ConfidenceIsMaxOfPositive ==
    (pc = "returned" /\ ~verdict.error) =>
        LET intent_result == FindAgent(valid_results, agents[1])
            legal_result == FindAgent(valid_results, agents[2])
            positive ==
                (IF intent_result.intent = "compliance"
                 THEN {intent_result.confidence} ELSE {})
                \cup (IF legal_result.applicable_regulations # <<>>
                      THEN {legal_result.confidence} ELSE {})
        IN  positive # {} =>
                /\ verdict.confidence \in positive
                /\ \A c \in positive : c <= verdict.confidence

\* C22: every verdict's action_required is one of NO_ACTION, MONITOR,
\* REVIEW_REQUIRED, IMPLEMENT_COMPLIANCE, HUMAN_REVIEW; without
\* human_review_needed it is IMPLEMENT_COMPLIANCE exactly when risk_level is
\* 'high', REVIEW_REQUIRED or MONITOR for a lower risk when compliance logic
\* is needed, and NO_ACTION when it is not needed.
C22_ActionFollowsRiskTier ==
    pc = "returned" =>
        /\ verdict.action_required \in
              {"NO_ACTION", "MONITOR", "REVIEW_REQUIRED", "IMPLEMENT_COMPLIANCE", "HUMAN_REVIEW"}
        /\ ~verdict.human_review_needed =>
              /\ (verdict.action_required = "IMPLEMENT_COMPLIANCE")
                    <=> (verdict.risk_level = "high")
              /\ (verdict.needs_compliance_logic /\ verdict.risk_level # "high")
                    => verdict.action_required \in {"REVIEW_REQUIRED", "MONITOR"}
              /\ ~verdict.needs_compliance_logic => verdict.action_required = "NO_ACTION"

\* C23: a search of the fallback store returns documents of the store with
\* their overlap (the number of words the query and the document have in
\* common), only documents with a positive overlap, as many as there are but
\* at most n_results, by descending overlap, documents of equal overlap in
\* the order of the store, and no document left out precedes one returned.
C23_FallbackRanking ==
    [][(search_result' # search_result /\ search_result'.store = "SimpleFallbackStore") =>
          LET found == search_result'.documents
              query == search_result'.query
              positive == {i \in DOMAIN documents : Overlap(query, documents[i]) > 0}
              Before(i, j) ==
                  \/ Overlap(query, documents[i]) > Overlap(query, documents[j])
                  \/ Overlap(query, documents[i]) = Overlap(query, documents[j]) /\ i < j
          IN  /\ Len(found) = Min(search_result'.n_results, Cardinality(positive))
              /\ \E at \in [DOMAIN found -> positive] :
                    /\ \A k \in DOMAIN found :
                          /\ found[k].doc = documents[at[k]]
                          /\ found[k].overlap = Overlap(query, documents[at[k]])
                    /\ \A k, l \in DOMAIN found : k < l => Before(at[k], at[l])
                    /\ \A k \in DOMAIN found :
                          \A j \in positive \ {at[l] : l \in DOMAIN found} :
                              Before(at[k], j)]_vars

\* C23 witness: the store holds two different documents with the same
\* overlap and the search returned both, in the order of the store.
C23_Witness ==
    /\ search_result.store = "SimpleFallbackStore"
    /\ Len(documents) = 2
    /\ documents[1] # documents[2]
    /\ Overlap(search_result.query, documents[1]) = Overlap(search_result.query, documents[2])
    /\ search_result.documents =
          <<[overlap |-> Overlap(search_result.query, documents[1]), doc |-> documents[1]],
            [overlap |-> Overlap(search_result.query, documents[2]), doc |-> documents[2]]>>

C26_CollaboratorResponseTolerated ==
    /\ legal_call.state \in {"idle", "returned"}
    /\ legal_call.state = "returned" =>
          /\ legal_call.analysis.confidence \in {0, 70, 90}
          /\ legal_call.analysis.risk_level \in RiskLevels
          /\ legal_call.llm.kind \in {"text", "unbalanced braces", "invalid json"} =>
                /\ legal_call.analysis.path = "text scan"
                /\ legal_call.analysis.confidence = 70
                /\ legal_call.analysis.risk_level =
                      (CASE legal_call.llm.says = "high risk" -> "high"
                         [] legal_call.llm.says = "minimal" -> "low"
                         [] OTHER -> "medium")
                /\ legal_call.llm.named # <<>> =>
                      /\ Len(legal_call.analysis.applicable_regulations) = Len(legal_call.llm.named)
                      /\ \A i \in DOMAIN legal_call.llm.named :
                            legal_call.analysis.applicable_regulations[i].regulation
                                = legal_call.llm.named[i]

\* C26 witness: the collaborator returned JSON whose fields have other types
\* than expected; analyze returned the finding of the vector search, with a
\* regulation entry.
C26_Witness ==
    /\ legal_call.state = "returned"
    /\ legal_call.llm.kind = "json of another shape"
    /\ legal_call.analysis.path = "vector search"
    /\ legal_call.analysis.applicable_regulations # <<>>

\* C27: without a collaborator the Legal Analyst's finding has confidence 0.0
\* and risk_level 'low' whatever regulation entries and compliance_risk tags
\* it has; with any findings of the two other agents the validator leaves it
\* out of agent_consensus and the verdict's risk_level is 'low'.
C27_NoCollaboratorZeroConfidenceLowRisk ==
    (legal_call.state = "returned" /\ legal_call.llm.kind = "no client") =>
        LET analysis == legal_call.analysis
            legal_result ==
                Finding(agents[2], FALSE, analysis.confidence, Missing,
                        [i \in DOMAIN analysis.applicable_regulations |->
                            analysis.applicable_regulations[i].regulation],
                        analysis.risk_level, Missing, -1)
        IN  /\ analysis.confidence = 0
            /\ analysis.risk_level = "low"
            /\ \A intent_result \in IntentFindings, technical_result \in TechnicalFindings :
                  /\ AgentConsensus(<<intent_result, legal_result, technical_result>>)
                        = AgentConsensus(<<intent_result, technical_result>>)
                  /\ ValidationAgent_analyze(<<intent_result, legal_result, technical_result>>)
                        .risk_level = "low"

\* C27 witness: no collaborator, and the finding has a regulation entry
\* tagged 'high'.
C27_Witness ==
    /\ legal_call.state = "returned"
    /\ legal_call.llm.kind = "no client"
    /\ \E i \in DOMAIN legal_call.analysis.applicable_regulations :
          legal_call.analysis.applicable_regulations[i].compliance_risk = "high"

\* C28: clear_expired and get_cached_result agree on what is expired: right
\* after clear_expired the store holds no entry that get_cached_result would
\* treat as absent at that instant, an entry aged exactly expiry_days
\* included.
C28_ClearAgreesWithGet ==
    [][clear_expired =>
          \A k \in CacheKeys :
              cache'[k] # NoEntry => get_cached_value(cache', k, now') = cache'[k].result]_vars

\* C29: flag_feature_for_compliance writes to the cache only after a call of
\* the collaborator that returned: for a statute whose calls all raised, or
\* that got the mock analysis because no API key is configured, the entry of
\* its (feature, statute) pair is not written in memory or in the file, and
\* no flag served from the cache carries the error text or the mock text.
C29_OnlySuccessfulCallsCached ==
    /\ [](\A i \in DOMAIN compliance_flags :
             compliance_flags[i].cached => compliance_flags[i].compliance_flag \in Responses)
    /\ [][\A r \in Texts :
             LET key == cache_key(FlaggedFeature, r)
                 mine == {i \in DOMAIN compliance_flags' : compliance_flags'[i].statute = r}
             IN  (\A i \in mine :
                     compliance_flags'[i].compliance_flag
                         \in {"Error processing with OpenRouter", "COMPLIANCE ANALYSIS"})
                 => /\ cache'[key] \in {cache[key], NoEntry}
                    /\ cache_file'[key] \in {cache_file[key], cache[key], NoEntry}]_vars

\* C29 witness: in one run the call for one statute raised and the call for
\* another returned; the first pair has no cache entry, the second has the
\* response, in memory and in the file.
C29_Witness ==
    /\ Len(compliance_flags) = 2
    /\ compliance_flags[1].compliance_flag = "Error processing with OpenRouter"
    /\ cache[cache_key(FlaggedFeature, compliance_flags[1].statute)] = NoEntry
    /\ ~compliance_flags[2].cached
    /\ compliance_flags[2].compliance_flag = "YES"
    /\ cache[cache_key(FlaggedFeature, compliance_flags[2].statute)].result = "YES"
    /\ cache_file = cache

\* C30: analyze_feature_list returns one detailed result per feature of the
\* list, in the order of the list, whether or not the analysis of a feature
\* raised; a feature whose analysis raised has a result with risk_level
\* 'unknown' and action HUMAN_REVIEW and is counted in human_review_needed;
\* no counter of the summary exceeds total_features.
C30_OneResultPerFeature ==
    LET features == batch_call.features
        summary == batch_call.results.analysis_summary
        detailed == batch_call.results.detailed_results
        failed == {k \in DOMAIN batch_call.raised : batch_call.raised[k]}
    IN  /\ summary.total_features = Len(features)
        /\ summary.features_requiring_compliance <= summary.total_features
        /\ summary.high_risk_features <= summary.total_features
        /\ summary.human_review_needed <= summary.total_features
        /\ summary.human_review_needed >= Cardinality(failed)
        /\ Len(detailed) = Len(batch_call.raised)
        /\ batch_call.state = "returned" => Len(detailed) = Len(features)
        /\ \A k \in DOMAIN detailed :
              /\ features[k].id # Missing => detailed[k].feature_id = features[k].id
              /\ features[k].id = Missing => detailed[k].feature_id = "feature_" \o ToString(k)
              /\ k \in failed =>
                    /\ detailed[k].risk_level = "unknown"
                    /\ detailed[k].action_required = "HUMAN_REVIEW"

\* C30 witness: the call returned for two different features; the analysis
\* of the first raised, the second was analysed and needs human review, so
\* human_review_needed has reached total_features.
C30_Witness ==
    /\ batch_call.state = "returned"
    /\ Len(batch_call.features) = 2
    /\ batch_call.features[1] # batch_call.features[2]
    /\ batch_call.raised = <<TRUE, FALSE>>
    /\ batch_call.results.detailed_results[2].analysis_type = "comprehensive"
    /\ batch_call.results.analysis_summary.human_review_needed = 2

====
